---- MODULE Spec2Model ----
(***************************************************************************)
(* Resume-Builder: the prompt variant (src/resume.py: interactive_fill,    *)
(* render_html, main) and the form variant (src/resume1.py: the Streamlit  *)
(* script), each a collector of a resume record followed by a Jinja2       *)
(* template rendering.                                                     *)
(*                                                                         *)
(* Text is a sequence of one-character strings, so that str.strip,         *)
(* str.split and str.join are computed as Python computes them.  The       *)
(* rendered document is the sequence of the template's output segments in  *)
(* document order: [f |-> "lit", s |-> <<markup>>] for a piece of the      *)
(* template's own markup and [f |-> <expression>, s |-> <text>] for a      *)
(* {{ expression }} substitution.  Whitespace between template tags is     *)
(* not modelled, and the templates' dash and middle-dot separators are     *)
(* written " - " and " . ".                                                *)
(***************************************************************************)
EXTENDS Integers, Sequences, FiniteSets, TLC

VARIABLES pc, line, answers, data, entry, bullets,
          experience, education, projects, skills, strengths,
          widgets, counts, html, file

(***************************************************************************)
(* pc         the input() call or statement the prompt variant has         *)
(*            reached; "form" for the form variant's page                  *)
(* line       the line input() returned last                               *)
(* answers    non-empty answers or form interactions so far (for the       *)
(*            bound MaxAnswers only)                                       *)
(* data       the record: a dict, filled key by key by interactive_fill,   *)
(*            built whole by each run of the form's script                 *)
(* entry      the fields of the entry being entered (title, company, ...)  *)
(* bullets    resp_lines, subpoints or subskills of that entry             *)
(* experience, education, projects, skills, strengths                      *)
(*            interactive_fill's lists as they grow                        *)
(* widgets    the form's text widgets, by key                              *)
(* counts     the form's number inputs                                     *)
(* html       the rendered document, <<>> before any rendering             *)
(* file       what main wrote to <output>.html                             *)
(***************************************************************************)
vars == <<pc, line, answers, data, entry, bullets,
          experience, education, projects, skills, strengths,
          widgets, counts, html, file>>

(* ------------------------------ bounds -------------------------------- *)

\* Non-empty answers typed at the prompts, or interactions with the form.
MaxAnswers == 2

\* Entries a form counter is raised to (the code allows up to 10, or 5).
MaxCount == 2

(* ------------------------------- text --------------------------------- *)

SP == " "
NL == "\n"
Whitespace == {SP, NL}

RECURSIVE LStrip(_)
LStrip(s) == IF s # <<>> /\ Head(s) \in Whitespace THEN LStrip(Tail(s)) ELSE s

RECURSIVE RStrip(_)
RStrip(s) ==
  IF s # <<>> /\ s[Len(s)] \in Whitespace THEN RStrip(SubSeq(s, 1, Len(s) - 1)) ELSE s

\* str.strip()
Strip(s) == RStrip(LStrip(s))

\* The first position of character c in s, 0 when there is none.
Find(s, c) ==
  IF \E i \in 1..Len(s) : s[i] = c
  THEN CHOOSE i \in 1..Len(s) : s[i] = c /\ \A j \in 1..(i - 1) : s[j] # c
  ELSE 0

\* str.split(c)
RECURSIVE Split(_, _)
Split(s, c) ==
  IF Find(s, c) = 0 THEN <<s>>
  ELSE <<SubSeq(s, 1, Find(s, c) - 1)>> \o Split(SubSeq(s, Find(s, c) + 1, Len(s)), c)

\* sep.join(list)
RECURSIVE Join(_, _)
Join(list, sep) ==
  IF list = <<>> THEN <<>>
  ELSE IF Len(list) = 1 THEN list[1]
  ELSE list[1] \o sep \o Join(Tail(list), sep)

\* What the user may type on one line of the terminal, or in a one-line field.
LineInputs == { <<>>, <<SP>>, <<"a">>, <<SP, "a">>, <<"<">> }

\* What the user may type in a multi-line text area.
AreaInputs == { <<>>, <<SP>>, <<"a">>, <<"a", NL, "<">>, <<"a", NL, NL, "<">> }

\* What the user may type in the comma-separated sub-skills field.
SubsInputs == { <<>>, <<"a", ",", "b">>, <<"a", ",", SP, "b">> }

(* ------------------------ the prompt collector ------------------------ *)

ScalarOrder == <<"name", "tagline", "email", "phone", "location", "linkedin", "github">>

ScalarPcs == {ScalarOrder[i] : i \in 1..Len(ScalarOrder)}

\* The prompt after scalar prompt k.
AfterScalar(k) ==
  LET i == CHOOSE j \in 1..Len(ScalarOrder) : ScalarOrder[j] = k
  IN IF i < Len(ScalarOrder) THEN ScalarOrder[i + 1] ELSE "summary"

\* input(): one line v is read from the terminal.
Read(v) ==
  /\ v \in LineInputs
  /\ v # <<>> => answers < MaxAnswers
  /\ line' = v
  /\ answers' = IF v # <<>> THEN answers + 1 ELSE answers

\* data[k] = v
Put(d, k, v) == (k :> v) @@ d

\* "if not x.strip(): break", with the whitespace test left out.
EndsGroupEmptyOnly(x) == x = <<>>

\* "if not x.strip(): break": the answer that ends a loop of prompts.
EndsGroup(x) == Strip(x) = <<>>

\* list.append(e)
AppendEntry(list, e) == Append(list, e)

AskScalar ==
  /\ pc \in ScalarPcs
  /\ \E v \in LineInputs :
       /\ Read(v)
       /\ data' = Put(data, pc, v)
  /\ pc' = AfterScalar(pc)
  /\ UNCHANGED <<entry, bullets, experience, education, projects, skills,
                 strengths, widgets, counts, html, file>>

AskSummary ==
  /\ pc = "summary"
  /\ \E v \in LineInputs :
       /\ Read(v)
       /\ data' = Put(data, "summary", IF Strip(v) # <<>> THEN v ELSE <<>>)
  /\ experience' = <<>>
  /\ pc' = "job_title"
  /\ UNCHANGED <<entry, bullets, education, projects, skills, strengths,
                 widgets, counts, html, file>>

AskJobTitle ==
  /\ pc = "job_title"
  /\ \E v \in LineInputs :
       /\ Read(v)
       /\ IF EndsGroup(v)
          THEN /\ data' = Put(data, "experience", experience)
               /\ education' = <<>>
               /\ pc' = "degree"
               /\ UNCHANGED entry
          ELSE /\ entry' = Put(<<>>, "title", v)
               /\ pc' = "job_company"
               /\ UNCHANGED <<data, education>>
  /\ UNCHANGED <<bullets, experience, projects, skills, strengths,
                 widgets, counts, html, file>>

JobFieldOrder == <<"job_company", "job_start", "job_end", "job_loc", "job_resp">>

JobFieldKey(p) ==
  CASE p = "job_company" -> "company"
    [] p = "job_start" -> "start_date"
    [] p = "job_end" -> "end_date"
    [] p = "job_loc" -> "location"

NextIn(order, p) == order[(CHOOSE j \in 1..Len(order) : order[j] = p) + 1]

AskJobField ==
  /\ pc \in {"job_company", "job_start", "job_end", "job_loc"}
  /\ \E v \in LineInputs :
       /\ Read(v)
       /\ entry' = Put(entry, JobFieldKey(pc), v)
  /\ pc' = NextIn(JobFieldOrder, pc)
  /\ bullets' = IF pc = "job_loc" THEN <<>> ELSE bullets
  /\ UNCHANGED <<data, experience, education, projects, skills, strengths,
                 widgets, counts, html, file>>

AskResponsibility ==
  /\ pc = "job_resp"
  /\ \E v \in LineInputs :
       /\ Read(v)
       /\ IF EndsGroup(v)
          THEN /\ experience' = AppendEntry(experience,
                    [title |-> entry.title, company |-> entry.company,
                     start_date |-> entry.start_date, end_date |-> entry.end_date,
                     location |-> entry.location, responsibilities |-> bullets])
               /\ pc' = "job_title"
               /\ UNCHANGED bullets
          ELSE /\ bullets' = Append(bullets, Strip(v))
               /\ UNCHANGED <<pc, experience>>
  /\ UNCHANGED <<data, entry, education, projects, skills, strengths,
                 widgets, counts, html, file>>

AskDegree ==
  /\ pc = "degree"
  /\ \E v \in LineInputs :
       /\ Read(v)
       /\ IF EndsGroup(v)
          THEN /\ data' = Put(data, "education", education)
               /\ projects' = <<>>
               /\ pc' = "pname"
               /\ UNCHANGED entry
          ELSE /\ entry' = Put(<<>>, "degree", v)
               /\ pc' = "edu_inst"
               /\ UNCHANGED <<data, projects>>
  /\ UNCHANGED <<bullets, experience, education, skills, strengths,
                 widgets, counts, html, file>>

EduFieldOrder == <<"edu_inst", "edu_start", "edu_end", "edu_loc", "edu_details", "degree">>

EduFieldKey(p) ==
  CASE p = "edu_inst" -> "institution"
    [] p = "edu_start" -> "start_date"
    [] p = "edu_end" -> "end_date"
    [] p = "edu_loc" -> "location"
    [] p = "edu_details" -> "details"

AskEducationField ==
  /\ pc \in {"edu_inst", "edu_start", "edu_end", "edu_loc", "edu_details"}
  /\ \E v \in LineInputs :
       /\ Read(v)
       /\ entry' = Put(entry, EduFieldKey(pc), v)
       /\ education' =
            IF pc = "edu_details"
            THEN AppendEntry(education,
                   [degree |-> entry.degree, institution |-> entry.institution,
                    start_date |-> entry.start_date, end_date |-> entry.end_date,
                    location |-> entry.location, details |-> v])
            ELSE education
  /\ pc' = NextIn(EduFieldOrder, pc)
  /\ UNCHANGED <<data, bullets, experience, projects, skills, strengths,
                 widgets, counts, html, file>>

AskProjectName ==
  /\ pc = "pname"
  /\ \E v \in LineInputs :
       /\ Read(v)
       /\ IF EndsGroup(v)
          THEN /\ data' = Put(data, "projects", projects)
               /\ skills' = <<>>
               /\ pc' = "main_skill"
               /\ UNCHANGED entry
          ELSE /\ entry' = Put(<<>>, "name", v)
               /\ pc' = "plink"
               /\ UNCHANGED <<data, skills>>
  /\ UNCHANGED <<bullets, experience, education, projects, strengths,
                 widgets, counts, html, file>>

AskProjectField ==
  /\ pc \in {"plink", "pdesc"}
  /\ \E v \in LineInputs :
       /\ Read(v)
       /\ entry' = Put(entry, IF pc = "plink" THEN "link" ELSE "description", v)
  /\ pc' = IF pc = "plink" THEN "pdesc" ELSE "ppoint"
  /\ bullets' = IF pc = "pdesc" THEN <<>> ELSE bullets
  /\ UNCHANGED <<data, experience, education, projects, skills, strengths,
                 widgets, counts, html, file>>

AskProjectPoint ==
  /\ pc = "ppoint"
  /\ \E v \in LineInputs :
       /\ Read(v)
       /\ IF EndsGroup(v)
          THEN /\ projects' = AppendEntry(projects,
                    [name |-> entry.name, link |-> entry.link,
                     description |-> entry.description, points |-> bullets])
               /\ pc' = "pname"
               /\ UNCHANGED bullets
          ELSE /\ bullets' = Append(bullets, Strip(v))
               /\ UNCHANGED <<pc, projects>>
  /\ UNCHANGED <<data, entry, experience, education, skills, strengths,
                 widgets, counts, html, file>>

AskMainSkill ==
  /\ pc = "main_skill"
  /\ \E v \in LineInputs :
       /\ Read(v)
       /\ IF EndsGroup(v)
          THEN /\ data' = Put(data, "skills", skills)
               /\ strengths' = <<>>
               /\ pc' = "strength"
               /\ UNCHANGED <<entry, bullets>>
          ELSE /\ entry' = Put(<<>>, "main", v)
               /\ bullets' = <<>>
               /\ pc' = "sub_skill"
               /\ UNCHANGED <<data, strengths>>
  /\ UNCHANGED <<experience, education, projects, skills,
                 widgets, counts, html, file>>

\* f"{main}: {', '.join(subskills)}", or main alone without sub-skills.
SkillString(main, subskills) ==
  IF subskills # <<>> THEN main \o <<":", SP>> \o Join(subskills, <<",", SP>>) ELSE main

AskSubSkill ==
  /\ pc = "sub_skill"
  /\ \E v \in LineInputs :
       /\ Read(v)
       /\ IF EndsGroup(v)
          THEN /\ skills' = AppendEntry(skills, SkillString(entry.main, bullets))
               /\ pc' = "main_skill"
               /\ UNCHANGED bullets
          ELSE /\ bullets' = Append(bullets, Strip(v))
               /\ UNCHANGED <<pc, skills>>
  /\ UNCHANGED <<data, entry, experience, education, projects, strengths,
                 widgets, counts, html, file>>

AskStrength ==
  /\ pc = "strength"
  /\ \E v \in LineInputs :
       /\ Read(v)
       /\ IF EndsGroup(v)
          THEN /\ data' = Put(data, "strengths", strengths)
               /\ pc' = "render"
               /\ UNCHANGED strengths
          ELSE /\ strengths' = AppendEntry(strengths, Strip(v))
               /\ UNCHANGED <<pc, data>>
  /\ UNCHANGED <<entry, bullets, experience, education, projects, skills,
                 widgets, counts, html, file>>

(* ----------------------------- rendering ------------------------------ *)

\* What {{ v }} writes for the text v.  Template(TEMPLATE) is constructed with
\* no autoescape argument, and Jinja2 then writes str(v) as it is: no character
\* of v is replaced by an HTML entity.
Finalize(v) == v

\* A piece of the template's own markup.
Lit(s) == [f |-> "lit", s |-> <<s>>]

\* {{ f }}, where expression f has the value v.
Val(f, v) == [f |-> f, s |-> Finalize(v)]

\* {% if v %}, taking every value for true.
TruthyAlways(v) == TRUE

\* {% if v %}: Jinja2 takes a non-empty string or list for true.
Truthy(v) == v # <<>>

\* {% if c %} segs {% endif %}
Cond(c, segs) == IF c THEN segs ELSE <<>>

\* {{ a or b }}, taking a whitespace-only a for false too.
JinjaOrBlank(a, b) == IF Strip(a) # <<>> THEN a ELSE b

\* {{ a or b }}
JinjaOr(a, b) == IF Truthy(a) THEN a ELSE b

Present == <<"P", "r", "e", "s", "e", "n", "t">>

RECURSIVE Flatten(_)
Flatten(parts) == IF parts = <<>> THEN <<>> ELSE Head(parts) \o Flatten(Tail(parts))

\* {% for %} writing the bodies last to first.
ForEachReversed(parts) == Flatten([i \in 1..Len(parts) |-> parts[Len(parts) + 1 - i]])

\* {% for x in list %} body {% endfor %}: the bodies, one per element, in order.
ForEach(parts) == Flatten(parts)

\* <ul> {% for x in list %} <li>{{ x }}</li> {% endfor %} </ul>
Items(f, list) ==
  ForEach([i \in 1..Len(list) |-> <<Lit("<li>"), Val(f, list[i]), Lit("</li>")>>])

\* The variable k of the template's context; an undefined one is empty.
Var(d, k) == IF k \in DOMAIN d THEN d[k] ELSE <<>>

\* {% if k %} open [label] {{ k }} close {% endif %}
Shown(d, k, open, close) ==
  Cond(Truthy(Var(d, k)), open \o <<Val(k, Var(d, k))>> \o close)

CSS == <<"body { font-family: ... } ... .summary { white-space: pre-wrap }">>

Job(job) ==
  <<Lit("<div class=\"job\">"), Lit("<div class=\"title\">"),
    Val("job.title", job.title), Lit(" - "), Val("job.company", job.company),
    Lit("</div>"), Lit("<div class=\"meta\">"),
    Val("job.start_date", job.start_date), Lit(" - "),
    Val("job.end_date", JinjaOr(job.end_date, Present)), Lit(" . "),
    Val("job.location", JinjaOr(job.location, <<>>)), Lit("</div>")>>
  \o Cond(Truthy(job.responsibilities),
          <<Lit("<ul>")>> \o Items("r", job.responsibilities) \o <<Lit("</ul>")>>)
  \o <<Lit("</div>")>>

Edu(e) ==
  <<Lit("<div class=\"education\">"), Lit("<div class=\"title\">"),
    Val("e.degree", e.degree), Lit(" - "), Val("e.institution", e.institution),
    Lit("</div>"), Lit("<div class=\"meta\">"),
    Val("e.start_date", e.start_date), Lit(" - "),
    Val("e.end_date", JinjaOr(e.end_date, <<>>)), Lit(" . "),
    Val("e.location", JinjaOr(e.location, <<>>)), Lit("</div>")>>
  \o Cond(Truthy(e.details), <<Lit("<div>"), Val("e.details", e.details), Lit("</div>")>>)
  \o <<Lit("</div>")>>

Project(p) ==
  <<Lit("<div class=\"project\">"), Lit("<div class=\"title\">"),
    Val("p.name", p.name), Lit("</div>")>>
  \o Cond(Truthy(p.link),
          <<Lit("<div class=\"meta\">"), Val("p.link", p.link), Lit("</div>")>>)
  \o Cond(Truthy(p.description),
          <<Lit("<div>"), Val("p.description", p.description), Lit("</div>")>>)
  \o Cond(Truthy(p.points),
          <<Lit("<ul>")>> \o Items("pt", p.points) \o <<Lit("</ul>")>>)
  \o <<Lit("</div>")>>

Section(title) == <<Lit("<div class=\"section\">"), Lit("<h2>" \o title \o "</h2>")>>

\* The single-column template of the prompt variant, rendered with context d
\* plus css and generated_on.
TEMPLATE(d, css, generated_on) ==
  <<Lit("<!doctype html><html><head><title>"), Val("name", Var(d, "name")),
    Lit(" - Resume</title><style>"), Val("css", css),
    Lit("</style></head><body><div class=\"container\"><div class=\"header\"><div>"),
    Lit("<div class=\"name\">"), Val("name", Var(d, "name")), Lit("</div>")>>
  \o Shown(d, "tagline", <<Lit("<div>")>>, <<Lit("</div>")>>)
  \o <<Lit("</div>"), Lit("<div class=\"contact\">")>>
  \o Shown(d, "email", <<>>, <<Lit("<br>")>>)
  \o Shown(d, "phone", <<>>, <<Lit("<br>")>>)
  \o Shown(d, "location", <<>>, <<Lit("<br>")>>)
  \o Shown(d, "linkedin", <<Lit("LinkedIn: ")>>, <<Lit("<br>")>>)
  \o Shown(d, "github", <<Lit("GitHub: ")>>, <<>>)
  \o <<Lit("</div>"), Lit("</div>")>>
  \o Cond(Truthy(Var(d, "summary")),
          Section("Summary")
          \o <<Lit("<div class=\"summary\">"), Val("summary", Var(d, "summary")),
               Lit("</div>"), Lit("</div>")>>)
  \o Cond(Truthy(Var(d, "experience")),
          Section("Experience")
          \o ForEach([i \in 1..Len(d.experience) |-> Job(d.experience[i])])
          \o <<Lit("</div>")>>)
  \o Cond(Truthy(Var(d, "education")),
          Section("Education")
          \o ForEach([i \in 1..Len(d.education) |-> Edu(d.education[i])])
          \o <<Lit("</div>")>>)
  \o Cond(Truthy(Var(d, "projects")),
          Section("Projects")
          \o ForEach([i \in 1..Len(d.projects) |-> Project(d.projects[i])])
          \o <<Lit("</div>")>>)
  \o Cond(Truthy(Var(d, "skills")),
          Section("Skills") \o <<Lit("<ul>")>> \o Items("skill", d.skills)
          \o <<Lit("</ul>"), Lit("</div>")>>)
  \o Cond(Truthy(Var(d, "strengths")),
          Section("Strengths") \o <<Lit("<ul>")>> \o Items("s", d.strengths)
          \o <<Lit("</ul>"), Lit("</div>")>>)
  \o <<Lit("<div style=\"margin-top:20px; font-size:12px; color:#888\">Generated on "),
       Val("generated_on", generated_on), Lit("</div></div></body></html>")>>

\* The instants datetime.utcnow() may return.
Instants ==
  { [Y |-> 2025, m |-> 1, d |-> 9, H |-> 7, M |-> 5, S |-> 59],
    [Y |-> 2026, m |-> 11, d |-> 30, H |-> 23, M |-> 40, S |-> 0] }

Digit(n) == <<"0", "1", "2", "3", "4", "5", "6", "7", "8", "9">>[n + 1]

\* n in decimal, zero-padded to w digits.
RECURSIVE Pad(_, _)
Pad(n, w) == IF w = 0 THEN <<>> ELSE Pad(n \div 10, w - 1) \o <<Digit(n % 10)>>

\* t.strftime('%Y-%m-%d %H:%M UTC')
strftime(t) ==
  Pad(t.Y, 4) \o <<"-">> \o Pad(t.m, 2) \o <<"-">> \o Pad(t.d, 2) \o <<SP>>
  \o Pad(t.H, 2) \o <<":">> \o Pad(t.M, 2) \o <<SP, "U", "T", "C">>

\* render_html(data, css) called at instant now.
render_html(d, css, now) == TEMPLATE(d, css, strftime(now))

\* main: html = render_html(data)
Render ==
  /\ pc = "render"
  /\ \E now \in Instants : html' = render_html(data, CSS, now)
  /\ pc' = "write"
  /\ UNCHANGED <<line, answers, data, entry, bullets, experience, education,
                 projects, skills, strengths, widgets, counts, file>>

\* main: the document is written to <output>.html
WriteFile ==
  /\ pc = "write"
  /\ file' = html
  /\ pc' = "done"
  /\ UNCHANGED <<line, answers, data, entry, bullets, experience, education,
                 projects, skills, strengths, widgets, counts, html>>

(* -------------------------- the form variant -------------------------- *)

\* The widget with key name_i (i = 0 for a widget that is not one of a series).
W(name, i) == <<name, i>>

\* number_input(..., value=1): the counters as the page first shows them.
DefaultCounts == [exp_count |-> 1, edu_count |-> 1, proj_count |-> 1, skills_count |-> 1]

\* number_input(..., min_value=0, max_value=...)
MaxValue(c) == IF c = "edu_count" THEN 5 ELSE 10

TextInputs == {"name", "tagline", "email", "phone", "location", "linkedin", "github"}
ExpInputs == {"title", "company", "start", "end", "loc", "resps"}
EduInputs == {"degree", "institution", "edu_start", "edu_end", "edu_loc", "edu_details"}
ProjInputs == {"proj_name", "proj_link", "proj_desc", "proj_points"}
SkillInputs == {"skill_main", "skill_sub"}

\* The text widgets the script creates when the counters are c.
WidgetKeys(c) ==
  {W(n, 0) : n \in TextInputs \cup {"summary", "strengths"}}
  \cup {W(n, i) : n \in ExpInputs, i \in 0..(c.exp_count - 1)}
  \cup {W(n, i) : n \in EduInputs, i \in 0..(c.edu_count - 1)}
  \cup {W(n, i) : n \in ProjInputs, i \in 0..(c.proj_count - 1)}
  \cup {W(n, i) : n \in SkillInputs, i \in 0..(c.skills_count - 1)}

\* st.text_area widgets take several lines, st.text_input widgets one.
InputsFor(k) ==
  IF k[1] \in {"summary", "resps", "proj_desc", "proj_points", "strengths"} THEN AreaInputs
  ELSE IF k[1] = "skill_sub" THEN SubsInputs
  ELSE LineInputs

\* text.split("\n") if text else []
Lines(text) == IF text # <<>> THEN Split(text, NL) ELSE <<>>

\* The skills loop: one string per category whose main skill is not empty.
FormSkill(main_skill, subs) ==
  IF main_skill # <<>>
  THEN <<IF subs # <<>> THEN main_skill \o <<":", SP>> \o subs ELSE main_skill>>
  ELSE <<>>

\* The record the script builds from the widgets w and the counters c.
Script(w, c) ==
  [name |-> w[W("name", 0)], tagline |-> w[W("tagline", 0)],
   email |-> w[W("email", 0)], phone |-> w[W("phone", 0)],
   location |-> w[W("location", 0)], linkedin |-> w[W("linkedin", 0)],
   github |-> w[W("github", 0)], summary |-> w[W("summary", 0)],
   experience |->
     [i \in 1..c.exp_count |->
        [title |-> w[W("title", i - 1)], company |-> w[W("company", i - 1)],
         start_date |-> w[W("start", i - 1)], end_date |-> w[W("end", i - 1)],
         location |-> w[W("loc", i - 1)],
         responsibilities |-> Lines(w[W("resps", i - 1)])]],
   education |->
     [i \in 1..c.edu_count |->
        [degree |-> w[W("degree", i - 1)], institution |-> w[W("institution", i - 1)],
         start_date |-> w[W("edu_start", i - 1)], end_date |-> w[W("edu_end", i - 1)],
         location |-> w[W("edu_loc", i - 1)], details |-> w[W("edu_details", i - 1)]]],
   projects |->
     [i \in 1..c.proj_count |->
        [name |-> w[W("proj_name", i - 1)], link |-> w[W("proj_link", i - 1)],
         description |-> w[W("proj_desc", i - 1)],
         points |-> Lines(w[W("proj_points", i - 1)])]],
   skills |->
     Flatten([i \in 1..c.skills_count |->
                FormSkill(w[W("skill_main", i - 1)], w[W("skill_sub", i - 1)])]),
   strengths |-> Lines(w[W("strengths", 0)])]

CSS2 == <<"body { font-family: ... } ... .title { font-weight: bold; }">>

FormEdu(e) ==
  <<Lit("<div>"), Lit("<b>"), Val("e.degree", e.degree), Lit("</b><br>"),
    Val("e.institution", e.institution), Lit("<br>"),
    Val("e.start_date", e.start_date), Lit(" - "), Val("e.end_date", e.end_date),
    Lit("</div>")>>

FormJob(job) ==
  <<Lit("<div>"), Lit("<div class=\"title\">"), Val("job.title", job.title),
    Lit("</div>"), Lit("<div>"), Val("job.company", job.company), Lit(" . "),
    Val("job.start_date", job.start_date), Lit(" - "),
    Val("job.end_date", JinjaOr(job.end_date, Present)), Lit("</div>"),
    Lit("<ul>")>>
  \o Items("r", job.responsibilities)
  \o <<Lit("</ul>"), Lit("</div>")>>

FormProject(p) ==
  <<Lit("<div>"), Lit("<div class=\"title\">"), Val("p.name", p.name), Lit("</div>")>>
  \o Cond(Truthy(p.description),
          <<Lit("<p>"), Val("p.description", p.description), Lit("</p>")>>)
  \o <<Lit("<ul>")>> \o Items("pt", p.points) \o <<Lit("</ul>"), Lit("</div>")>>

\* The two-column template of the form variant, rendered with context d plus css.
FormTEMPLATE(d, css) ==
  <<Lit("<!doctype html><html><head><title>"), Val("name", Var(d, "name")),
    Lit(" - Resume</title><style>"), Val("css", css),
    Lit("</style></head><body><div class=\"container\"><div class=\"sidebar\">"),
    Lit("<h2>Contact</h2>")>>
  \o Shown(d, "email", <<Lit("<div>")>>, <<Lit("</div>")>>)
  \o Shown(d, "phone", <<Lit("<div>")>>, <<Lit("</div>")>>)
  \o Shown(d, "location", <<Lit("<div>")>>, <<Lit("</div>")>>)
  \o Shown(d, "linkedin", <<Lit("<div>"), Lit("LinkedIn: ")>>, <<Lit("</div>")>>)
  \o Shown(d, "github", <<Lit("<div>"), Lit("GitHub: ")>>, <<Lit("</div>")>>)
  \o Cond(Truthy(Var(d, "skills")),
          <<Lit("<h2>Skills</h2>"), Lit("<ul>")>> \o Items("skill", d.skills)
          \o <<Lit("</ul>")>>)
  \o Cond(Truthy(Var(d, "strengths")),
          <<Lit("<h2>Strengths</h2>"), Lit("<ul>")>> \o Items("s", d.strengths)
          \o <<Lit("</ul>")>>)
  \o Cond(Truthy(Var(d, "education")),
          <<Lit("<h2>Education</h2>")>>
          \o ForEach([i \in 1..Len(d.education) |-> FormEdu(d.education[i])]))
  \o <<Lit("</div>"), Lit("<div class=\"main\">"), Lit("<h1 class=\"name\">"),
       Val("name", Var(d, "name")), Lit("</h1>")>>
  \o Shown(d, "tagline", <<Lit("<p>")>>, <<Lit("</p>")>>)
  \o Cond(Truthy(Var(d, "summary")),
          <<Lit("<h2>Summary</h2>"), Lit("<p>"), Val("summary", Var(d, "summary")),
            Lit("</p>")>>)
  \o Cond(Truthy(Var(d, "experience")),
          <<Lit("<h2>Experience</h2>")>>
          \o ForEach([i \in 1..Len(d.experience) |-> FormJob(d.experience[i])]))
  \o Cond(Truthy(Var(d, "projects")),
          <<Lit("<h2>Projects</h2>")>>
          \o ForEach([i \in 1..Len(d.projects) |-> FormProject(d.projects[i])]))
  \o <<Lit("</div></div></body></html>")>>

\* One run of the script, top to bottom, on the widgets w and the counters c.
Rerun(w, c) ==
  /\ data' = Script(w, c)
  /\ html' = FormTEMPLATE(Script(w, c), CSS2)

\* The user edits one text widget; Streamlit runs the script again.
SetText ==
  /\ pc = "form"
  /\ answers < MaxAnswers
  /\ \E k \in DOMAIN widgets : \E v \in InputsFor(k) :
       /\ v # widgets[k]
       /\ widgets' = [widgets EXCEPT ![k] = v]
       /\ Rerun(widgets', counts)
  /\ answers' = answers + 1
  /\ UNCHANGED <<pc, line, entry, bullets, experience, education, projects,
                 skills, strengths, counts, file>>

\* The user changes one counter; Streamlit runs the script again.  The script
\* creates the widgets of a new entry, which start empty; the widgets of a
\* removed entry are not created, and Streamlit forgets their values.
SetCount ==
  /\ pc = "form"
  /\ answers < MaxAnswers
  /\ \E c \in DOMAIN counts : \E n \in 0..MaxValue(c) :
       /\ n <= MaxCount
       /\ n # counts[c]
       /\ counts' = [counts EXCEPT ![c] = n]
       /\ widgets' = [k \in WidgetKeys(counts') |->
                        IF k \in DOMAIN widgets THEN widgets[k] ELSE <<>>]
       /\ Rerun(widgets', counts')
  /\ answers' = answers + 1
  /\ UNCHANGED <<pc, line, entry, bullets, experience, education, projects,
                 skills, strengths, file>>

\* The prompt variant as main() starts.
InitPrompt ==
  /\ pc = "name"
  /\ data = <<>>
  /\ widgets = <<>>
  /\ counts = <<>>
  /\ html = <<>>

\* The form variant after the script's first run, every widget at its default.
InitForm ==
  /\ pc = "form"
  /\ counts = DefaultCounts
  /\ widgets = [k \in WidgetKeys(DefaultCounts) |-> <<>>]
  /\ data = Script(widgets, counts)
  /\ html = FormTEMPLATE(data, CSS2)

Init ==
  /\ InitPrompt \/ InitForm
  /\ line = <<>>
  /\ answers = 0
  /\ entry = <<>>
  /\ bullets = <<>>
  /\ experience = <<>>
  /\ education = <<>>
  /\ projects = <<>>
  /\ skills = <<>>
  /\ strengths = <<>>
  /\ file = <<>>

Next ==
  \/ AskScalar
  \/ AskSummary
  \/ AskJobTitle
  \/ AskJobField
  \/ AskResponsibility
  \/ AskDegree
  \/ AskEducationField
  \/ AskProjectName
  \/ AskProjectField
  \/ AskProjectPoint
  \/ AskMainSkill
  \/ AskSubSkill
  \/ AskStrength
  \/ Render
  \/ WriteFile
  \/ SetText
  \/ SetCount

Spec == Init /\ [][Next]_vars

(* ------------------------------ properties ---------------------------- *)

\* A document has been produced, from the record in data.
Rendered == html # <<>>

\* The substitutions of expression f in the document, in document order.
SegsOf(f) == SelectSeq(html, LAMBDA x : x.f = f)

\* Their texts.
Texts(f) == [i \in 1..Len(SegsOf(f)) |-> SegsOf(f)[i].s]

\* The document holds the piece of markup m.
HasLit(m) == \E i \in 1..Len(html) : html[i] = [f |-> "lit", s |-> <<m>>]

\* Every substitution of f directly follows the piece of markup m.
Labelled(f, m) ==
  \A i \in 1..Len(html) :
    html[i].f = f => i > 1 /\ html[i - 1] = [f |-> "lit", s |-> <<m>>]

\* Empty or whitespace only.
AllWhitespace(x) == \A i \in 1..Len(x) : x[i] \in {" ", "\n", "\t"}

RECURSIVE Concat(_)
Concat(lists) == IF lists = <<>> THEN <<>> ELSE lists[1] \o Concat(Tail(lists))

\* list is an initial part of longer.
IsPrefix(list, longer) ==
  Len(list) <= Len(longer) /\ SubSeq(longer, 1, Len(list)) = list

\* longer is list, or list with one element added at the end.
GrownBy(list, longer) == IsPrefix(list, longer) /\ Len(longer) <= Len(list) + 1

LineFields == {"tagline", "email", "phone", "location", "linkedin", "github"}

\* C1: no user-supplied text reaches the document with a raw <, & or " in it:
\* every substitution of a record field is written escaped.
C1_NoRawMarkup ==
  Rendered =>
    \A i \in 1..Len(html) :
      html[i].f \notin {"lit", "css", "generated_on"} =>
        \A j \in 1..Len(html[i].s) : html[i].s[j] \notin {"<", "&", "\""}

\* C2: in both templates a section's heading and body are in the document
\* exactly when its field is not empty, each of tagline, email, phone,
\* location, linkedin and github is written exactly when it is not empty,
\* and linkedin and github follow their labels.
C2_SectionsIffNonEmpty ==
  Rendered =>
    /\ HasLit("<h2>Summary</h2>") <=> data.summary # <<>>
    /\ Len(SegsOf("summary")) = IF data.summary # <<>> THEN 1 ELSE 0
    /\ HasLit("<h2>Experience</h2>") <=> data.experience # <<>>
    /\ Len(SegsOf("job.title")) = Len(data.experience)
    /\ HasLit("<h2>Education</h2>") <=> data.education # <<>>
    /\ Len(SegsOf("e.degree")) = Len(data.education)
    /\ HasLit("<h2>Projects</h2>") <=> data.projects # <<>>
    /\ Len(SegsOf("p.name")) = Len(data.projects)
    /\ HasLit("<h2>Skills</h2>") <=> data.skills # <<>>
    /\ Len(SegsOf("skill")) = Len(data.skills)
    /\ HasLit("<h2>Strengths</h2>") <=> data.strengths # <<>>
    /\ Len(SegsOf("s")) = Len(data.strengths)
    /\ \A f \in LineFields : Len(SegsOf(f)) = IF data[f] # <<>> THEN 1 ELSE 0
    /\ HasLit("LinkedIn: ") <=> data.linkedin # <<>>
    /\ HasLit("GitHub: ") <=> data.github # <<>>
    /\ Labelled("linkedin", "LinkedIn: ")
    /\ Labelled("github", "GitHub: ")

\* A document with a written line and section beside omitted ones.
C2_Witness ==
  /\ Rendered
  /\ data.linkedin # <<>>
  /\ data.github = <<>>
  /\ data.experience = <<>>
  /\ data.strengths # <<>> \/ data.summary # <<>>

\* C3: a field that is empty or whitespace only is left out of the document,
\* as an absent one is.
C3_BlankIsAbsent ==
  Rendered =>
    /\ \A f \in LineFields \cup {"summary"} :
         AllWhitespace(data[f]) => SegsOf(f) = <<>>
    /\ Len(SegsOf("p.description")) =
         Cardinality({i \in 1..Len(data.projects) :
                        ~AllWhitespace(data.projects[i].description)})

\* C4: in both templates the k-th job shows "Present" when its end_date is
\* empty and its end_date, unchanged, otherwise.
C4_PresentIffNoEndDate ==
  Rendered =>
    Texts("job.end_date") =
      [i \in 1..Len(data.experience) |->
         IF data.experience[i].end_date = <<>>
         THEN <<"P", "r", "e", "s", "e", "n", "t">>
         ELSE data.experience[i].end_date]

\* A document with one job that has an end date and one that has none.
C4_Witness ==
  /\ Rendered
  /\ \E i, j \in 1..Len(data.experience) :
       /\ data.experience[i].end_date = <<>>
       /\ data.experience[j].end_date # <<>>

\* The lines of a text block that are neither empty nor whitespace only.
NonBlankLines(text) == SelectSeq(Split(text, "\n"), LAMBDA x : ~AllWhitespace(x))

\* C5: a bullet list holds the non-blank lines entered, in order, and no
\* blank one, whether read line by line or split from a text block.
C5_BlankLinesDiscarded ==
  Rendered =>
    /\ \A i \in 1..Len(data.strengths) : ~AllWhitespace(data.strengths[i])
    /\ \A k \in 1..Len(data.experience) :
         \A i \in 1..Len(data.experience[k].responsibilities) :
           ~AllWhitespace(data.experience[k].responsibilities[i])
    /\ \A k \in 1..Len(data.projects) :
         \A i \in 1..Len(data.projects[k].points) :
           ~AllWhitespace(data.projects[k].points[i])
    /\ pc = "form" =>
         /\ data.strengths = NonBlankLines(widgets[<<"strengths", 0>>])
         /\ \A k \in 1..Len(data.experience) :
              data.experience[k].responsibilities =
                NonBlankLines(widgets[<<"resps", k - 1>>])

\* The sub-skills of a comma-separated text.
SubSkills(text) ==
  LET parts == Split(text, ",")
      kept == SelectSeq(parts, LAMBDA x : ~AllWhitespace(x))
  IN [i \in 1..Len(kept) |-> Strip(kept[i])]

\* C6: the form stores for each category the string the prompts store for the
\* same main skill and sub-skills: "m: s1, s2" or m alone.
C6_SkillStringSame ==
  (Rendered /\ pc = "form") =>
    data.skills =
      Concat([i \in 1..counts.skills_count |->
                IF widgets[<<"skill_main", i - 1>>] # <<>>
                THEN <<SkillString(widgets[<<"skill_main", i - 1>>],
                                   SubSkills(widgets[<<"skill_sub", i - 1>>]))>>
                ELSE <<>>])

\* The document shows every element of every sequence of the record once, in
\* the record's order.
RenderedInOrder ==
  Rendered =>
    /\ Texts("job.title") = [i \in 1..Len(data.experience) |-> data.experience[i].title]
    /\ Texts("r") =
         Concat([i \in 1..Len(data.experience) |-> data.experience[i].responsibilities])
    /\ Texts("e.degree") = [i \in 1..Len(data.education) |-> data.education[i].degree]
    /\ Texts("p.name") = [i \in 1..Len(data.projects) |-> data.projects[i].name]
    /\ Texts("pt") = Concat([i \in 1..Len(data.projects) |-> data.projects[i].points])
    /\ Texts("skill") = data.skills
    /\ Texts("s") = data.strengths

\* The form stores the entries in the order of their widgets.
StoredInFormOrder ==
  pc = "form" =>
    /\ \A i \in 1..Len(data.experience) :
         data.experience[i].title = widgets[<<"title", i - 1>>]
    /\ \A i \in 1..Len(data.education) :
         data.education[i].degree = widgets[<<"degree", i - 1>>]
    /\ \A i \in 1..Len(data.projects) :
         data.projects[i].name = widgets[<<"proj_name", i - 1>>]

\* A step of the prompt collector leaves what a list holds in place: it adds
\* at most one element, at the end, the one just completed.
StoredInEntryOrder ==
  /\ GrownBy(experience, experience')
  /\ GrownBy(education, education')
  /\ GrownBy(projects, projects')
  /\ GrownBy(skills, skills')
  /\ GrownBy(strengths, strengths')
  /\ experience' # experience =>
       /\ experience'[Len(experience')].title = entry.title
       /\ experience'[Len(experience')].responsibilities = bullets
  /\ education' # education =>
       education'[Len(education')].degree = entry.degree
  /\ projects' # projects =>
       /\ projects'[Len(projects')].name = entry.name
       /\ projects'[Len(projects')].points = bullets
  /\ skills' # skills =>
       skills'[Len(skills')] = SkillString(entry.main, bullets)
  /\ strengths' # strengths => strengths' = Append(strengths, Strip(line'))
  /\ bullets' # bullets =>
       bullets' = <<>> \/ bullets' = Append(bullets, Strip(line'))

\* C7: order is kept from entry to record to document: the k-th item entered
\* is the k-th stored and the k-th shown, each shown once.
C7_OrderPreserved ==
  [](RenderedInOrder /\ StoredInFormOrder) /\ [][StoredInEntryOrder]_vars

\* A document of a record with two different jobs.
C7_Witness ==
  /\ Rendered
  /\ Len(data.experience) = 2
  /\ data.experience[1].title # data.experience[2].title

\* A blank answer at key prompt p ends the group: the next prompt is q, the
\* first of the next group, and the record's field k is the list as it was.
EndsAt(p, q, k, list) ==
  pc = p =>
    IF AllWhitespace(line')
    THEN pc' = q /\ k \in DOMAIN data' /\ data'[k] = list /\ UNCHANGED entry
    ELSE pc' \notin {p, q} /\ k \notin DOMAIN data'

\* C9: in the prompt collector a blank job title, degree or project name
\* ends its group with the entries completed so far, stored entries have a
\* non-blank key, and the record is returned at the last blank terminator.
C9_BlankKeyEndsGroup ==
  [][ /\ EndsAt("job_title", "degree", "experience", experience)
      /\ EndsAt("degree", "pname", "education", education)
      /\ EndsAt("pname", "main_skill", "projects", projects)
      /\ experience' = experience \/ pc = "job_resp"
      /\ \A i \in 1..Len(experience') : ~AllWhitespace(experience'[i].title)
      /\ \A i \in 1..Len(education') : ~AllWhitespace(education'[i].degree)
      /\ \A i \in 1..Len(projects') : ~AllWhitespace(projects'[i].name)
      /\ pc' = "render" <=> (pc = "strength" /\ AllWhitespace(line'))
      /\ pc' = "render" =>
           DOMAIN data' = ScalarPcs \cup {"summary", "experience", "education",
                                          "projects", "skills", "strengths"}
    ]_vars

\* A whitespace-only job title has just ended the experience group after one
\* completed entry.
C9_Witness ==
  /\ pc = "degree"
  /\ Len(experience) = 1
  /\ line # <<>>
  /\ AllWhitespace(line)
  /\ data.experience = experience

IsDigit(c) == c \in {"0", "1", "2", "3", "4", "5", "6", "7", "8", "9"}

\* YYYY-MM-DD HH:MM UTC
IsStamp(x) ==
  /\ Len(x) = 20
  /\ \A i \in {1, 2, 3, 4, 6, 7, 9, 10, 12, 13, 15, 16} : IsDigit(x[i])
  /\ x[5] = "-" /\ x[8] = "-" /\ x[11] = " " /\ x[14] = ":"
  /\ SubSeq(x, 17, 20) = <<" ", "U", "T", "C">>

\* C10: every document, of either variant, carries the footer stamp.
C10_FooterStamp ==
  Rendered => Len(SegsOf("generated_on")) = 1 /\ IsStamp(SegsOf("generated_on")[1].s)

====
